---- MODULE Spec2Model ----
(***************************************************************************)
(* A model of bin/batchrename.py: the renumbering-spec parser              *)
(* (init_renumbering), the path source (gen_files, walk_tree) and the      *)
(* rename loop (batch_rename).                                             *)
(*                                                                         *)
(* Text is modelled as a sequence of one-character strings, so that        *)
(* str.replace, str.zfill, str.strip, int() and str() are computed the way *)
(* Python computes them.  Python's None is NoText where a text is expected,   *)
(* NoChar where one character is, and NoInt where an integer is.           *)
(***************************************************************************)
EXTENDS Integers, Sequences, FiniteSets, TLC

VARIABLES
    renumber_group,   \* init_renumbering: the argument (text or None)
    parsed,           \* init_renumbering: the call's outcome
    template,         \* numeral substitution: cfg.replacement
    numeral,          \* numeral substitution: the text put for {n}, None when it is skipped
    replacement_n,    \* numeral substitution: the text handed to matcher.sub, None before
    cfg,              \* batch_rename: the BatchRenameConfig (cfg.files is the generator below)
    files,            \* gen_files: the explicit path arguments
    gi,               \* gen_files: the position of the generator in files
    stdin,            \* sys.stdin: the lines not read yet
    count,            \* enumerate: the number it hands out with the next item
    fs,               \* the file system: the paths that exist
    out,              \* standard output: the lines printed
    pc,               \* "run" in the loop, "done" after it, "raised" when an exception left it
    err,              \* the exception that left the loop
    yielded,          \* history: the items the generator has yielded, in order
    stdin_read,       \* history: the stdin lines read, in order
    last,             \* history: what the loop did with the item yielded last
    walk,             \* walk_tree: the directories still to visit, the entries still to yield
    dirs,             \* the file system: the paths of fs that are directories
    log,              \* history: what the loop did with every item, in order
    listed,           \* history: the directory listings of the walk, in order
    fs0               \* history: the paths that existed when the run began

parseVars == <<renumber_group, parsed>>
templateVars == <<template, numeral, replacement_n>>
runVars == <<cfg, files, gi, stdin, count, fs, out, pc, err, yielded, stdin_read, last,
             walk, dirs, log, listed, fs0>>
vars == <<renumber_group, parsed, template, numeral, replacement_n,
          cfg, files, gi, stdin, count, fs, out, pc, err, yielded, stdin_read, last,
          walk, dirs, log, listed, fs0>>

NoText == <<"None">>
NoChar == "None"
NoInt  == -1

(***************************************************************************)
(* Bounds of the model.                                                    *)
(***************************************************************************)
MaxSpecLen == 3       \* longest renumbering-spec text tried
MaxTemplateLen == 7   \* longest replacement template tried by SpecTemplate
MaxFiles == 2         \* most path arguments of a run
MaxGenFiles == 3      \* most path arguments given to gen_files by SpecGen
MaxStdinLines == 2    \* most stdin lines given to gen_files by SpecGen
MaxEntries == 4       \* most entries of the tree walk_tree walks in SpecWalk

(***************************************************************************)
(* Text helpers.                                                           *)
(***************************************************************************)
DigitChars == <<"0", "1", "2", "3", "4", "5", "6", "7", "8", "9">>

IsDigit(c) == \E i \in 1..Len(DigitChars) : DigitChars[i] = c

DigitVal(c) == (CHOOSE i \in 1..Len(DigitChars) : DigitChars[i] = c) - 1

\* s[from..] (1-based), empty when from is past the end
Drop(s, from) == SubSeq(s, from, Len(s))

\* does text s carry the text t at position i
HasAt(s, t, i) ==
    /\ i >= 1
    /\ i + Len(t) - 1 <= Len(s)
    /\ SubSeq(s, i, i + Len(t) - 1) = t

\* the longest run of decimal digits of s that starts at position i: regex [0-9]+ / \d+ (greedy)
RECURSIVE DigitRun(_, _)
DigitRun(s, i) ==
    IF i <= Len(s) /\ IsDigit(s[i]) THEN <<s[i]>> \o DigitRun(s, i + 1) ELSE <<>>

\* int(s) of a text of decimal digits
RECURSIVE IntOfDigits(_)
IntOfDigits(s) ==
    IF s = <<>> THEN 0
    ELSE 10 * IntOfDigits(SubSeq(s, 1, Len(s) - 1)) + DigitVal(s[Len(s)])

\* all texts over alphabet A of length at most n
TextsUpTo(A, n) == UNION {[1..k -> A] : k \in 0..n}

(***************************************************************************)
(* init_renumbering(renumber_group): the pair (match group, offset), or    *)
(* ValueError.  The pattern r"([0-9]+)(?:(\+|-)([0-9]+))?" is applied with *)
(* re.match, which anchors at the start of the text only.                  *)
(***************************************************************************)
\* m.groups() of the re.match at line 237, or <<>> when there is no match
RenumberMatch(s) ==
    LET g0 == DigitRun(s, 1)
        p  == Len(g0) + 1
        sg == IF p <= Len(s) /\ s[p] \in {"+", "-"} THEN s[p] ELSE NoChar
        g2 == IF sg = NoChar THEN <<>> ELSE DigitRun(s, p + 1)
    IN  IF g0 = <<>> THEN <<>>
        ELSE IF sg # NoChar /\ g2 # <<>> THEN <<g0, sg, g2>>
        ELSE <<g0, NoChar, NoText>>

\* the outcome of a call: returned (st = "ok") or raised (st = the exception's name)
init_renumbering(s) ==
    IF s = NoText \/ s = <<>> THEN [st |-> "ok", group |-> NoInt, offset |-> 0]
    ELSE LET g == RenumberMatch(s) IN
         IF g = <<>> THEN [st |-> "ValueError", group |-> NoInt, offset |-> 0]
         ELSE [st     |-> "ok",
               group  |-> IntOfDigits(g[1]),
               offset |-> IF g[2] = "+" THEN IntOfDigits(g[3])
                          ELSE IF g[2] = "-" THEN 0 - IntOfDigits(g[3])
                          ELSE 0]

\* batch_rename's test `if cfg.renumber_match_group:` : None and 0 are both false
GroupBased(match_group) == match_group # NoInt /\ match_group # 0

(***************************************************************************)
(* The numeral and the replacement text of one item (batch_rename, lines   *)
(* 261 to 287).                                                            *)
(***************************************************************************)
\* str(n)
RECURSIVE StrOfNat(_)
StrOfNat(n) ==
    IF n < 10 THEN <<DigitChars[n + 1]>>
    ELSE StrOfNat(n \div 10) \o <<DigitChars[(n % 10) + 1]>>

StrOfInt(n) == IF n < 0 THEN <<"-">> \o StrOfNat(0 - n) ELSE StrOfNat(n)

Zeros(k) == [i \in 1..k |-> "0"]

\* s.zfill(width): zeros go after a leading sign
Zfill(s, width) ==
    IF Len(s) >= width THEN s
    ELSE IF s # <<>> /\ s[1] \in {"+", "-"}
         THEN <<s[1]>> \o Zeros(width - Len(s)) \o Drop(s, 2)
         ELSE Zeros(width - Len(s)) \o s

\* str(n).zfill(cfg.zero_pad)
NumeralText(n, zero_pad) == Zfill(StrOfInt(n), zero_pad)

\* s.replace(old, new): every occurrence, found left to right without overlap (old is not empty)
RECURSIVE Replace(_, _, _)
Replace(s, old, new) ==
    IF Len(s) < Len(old) THEN s
    ELSE IF HasAt(s, old, 1) THEN new \o Replace(Drop(s, Len(old) + 1), old, new)
    ELSE <<s[1]>> \o Replace(Drop(s, 2), old, new)

Placeholder == <<"{", "n", "}">>     \* "{n}"
EscapeMark  == <<"{", "{", "}">>     \* "{{}"

\* line 271 / 282: replacement_n.replace("{n}", numeral), not done when num is None
SubstituteNumeral(repl, num) ==
    IF num = NoText THEN repl ELSE Replace(repl, Placeholder, num)

\* line 287: replacement_n.replace("{{}", "{")
Unescape(repl) == Replace(repl, EscapeMark, <<"{">>)

\* a slip: the escape undone before the numeral is substituted
ResolveTemplate_UnescapeFirst(repl, num) == SubstituteNumeral(Unescape(repl), num)

\* lines 261 to 287: the numeral is substituted first, the escape is undone after
ResolveTemplate(repl, num) == Unescape(SubstituteNumeral(repl, num))

(***************************************************************************)
(* The regular expressions of a run.  re.compile, matcher.match and        *)
(* matcher.sub are Python's; the model covers the patterns  lit,           *)
(* lit(\d+)  and  lit(\d+)?  (lit a literal text that is not empty and     *)
(* does not end in a digit), for which leftmost greedy matching needs no   *)
(* backtracking, and the templates in which a backslash is followed by one *)
(* digit 1..9 and then by no digit ("\1": the text of group 1).            *)
(***************************************************************************)
\* pattern.groups
Groups(p) == IF p.grp = "none" THEN 0 ELSE 1

NoMatch == [ok |-> FALSE, stop |-> 0, g1 |-> NoText]

\* the match of p that starts at position i of s: stop is the position after
\* it, g1 the text of group 1 (None when the group took no part)
MatchAt(p, s, i) ==
    LET j == i + Len(p.lit)
        d == DigitRun(s, j)
    IN  IF ~HasAt(s, p.lit, i) THEN NoMatch
        ELSE IF p.grp = "none" THEN [ok |-> TRUE, stop |-> j, g1 |-> NoText]
        ELSE IF p.grp = "req"
             THEN IF d = <<>> THEN NoMatch
                  ELSE [ok |-> TRUE, stop |-> j + Len(d), g1 |-> d]
        ELSE [ok |-> TRUE, stop |-> j + Len(d), g1 |-> IF d = <<>> THEN NoText ELSE d]

\* matcher.match(old_file): anchored at the start of the text only
MatchStart(p, s) == MatchAt(p, s, 1)

\* does the template refer to a group the pattern does not have (re.error,
\* raised by matcher.sub before it looks at the text)
BadGroupReference(p, t) ==
    \E i \in 1..(Len(t) - 1) : t[i] = "\\" /\ IsDigit(t[i + 1]) /\ DigitVal(t[i + 1]) > Groups(p)

\* the template with its group references filled in from match m; a group
\* that took no part gives the empty text
RECURSIVE Expand(_, _)
Expand(t, m) ==
    IF t = <<>> THEN <<>>
    ELSE IF Len(t) >= 2 /\ t[1] = "\\" /\ t[2] = "1"
         THEN (IF m.g1 = NoText THEN <<>> ELSE m.g1) \o Expand(Drop(t, 3), m)
    ELSE <<t[1]>> \o Expand(Drop(t, 2), m)

\* matcher.sub(t, s) from position i on: every match, leftmost first, without overlap
RECURSIVE SubFrom(_, _, _, _)
SubFrom(p, t, s, i) ==
    IF i > Len(s) THEN <<>>
    ELSE LET m == MatchAt(p, s, i) IN
         IF m.ok THEN Expand(t, m) \o SubFrom(p, t, s, m.stop)
         ELSE <<s[i]>> \o SubFrom(p, t, s, i + 1)

Sub(p, t, s) == SubFrom(p, t, s, 1)

(***************************************************************************)
(* gen_files, with explicit path arguments (files is not empty).           *)
(***************************************************************************)
Dash == <<"-">>

Whitespace == {" ", "\n", "\t"}

\* s.strip()
RECURSIVE LStrip(_)
LStrip(s) == IF s # <<>> /\ s[1] \in Whitespace THEN LStrip(Drop(s, 2)) ELSE s

RECURSIVE RStrip(_)
RStrip(s) ==
    IF s # <<>> /\ s[Len(s)] \in Whitespace THEN RStrip(SubSeq(s, 1, Len(s) - 1)) ELSE s

Strip(s) == RStrip(LStrip(s))

\* next() on the generator at position i of args with `lines` left on stdin:
\* an argument "-" yields the stripped stdin lines one by one, and the loop
\* goes on with the next argument when stdin is exhausted; any other
\* argument is yielded as it is.  done is StopIteration.
RECURSIVE gen_files(_, _, _)
gen_files(args, i, lines) ==
    IF i > Len(args)
    THEN [done |-> TRUE, item |-> NoText, gi |-> i, stdin |-> lines, read |-> FALSE]
    ELSE IF args[i] = Dash
         THEN IF lines # <<>>
              THEN [done |-> FALSE, item |-> Strip(Head(lines)), gi |-> i,
                    stdin |-> Tail(lines), read |-> TRUE]
              ELSE gen_files(args, i + 1, lines)
    ELSE [done |-> FALSE, item |-> args[i], gi |-> i + 1, stdin |-> lines, read |-> FALSE]

(***************************************************************************)
(* Paths and the file system.  A path is a text with "/" between its       *)
(* names; fs holds the paths that exist and dirs those of them that are    *)
(* directories.  A path without "/" lies in the current directory, which   *)
(* always exists.                                                          *)
(***************************************************************************)
\* os.path.join(path, name), line 223
Join(path, name) == path \o <<"/">> \o name

\* the position of the last "/" of p, 0 when it has none
LastSep(p) ==
    IF \E i \in 1..Len(p) : p[i] = "/"
    THEN CHOOSE i \in 1..Len(p) : p[i] = "/" /\ \A j \in (i + 1)..Len(p) : p[j] # "/"
    ELSE 0

\* the directory a path lies in, the empty text for the current directory
Parent(p) == SubSeq(p, 1, LastSep(p) - 1)

\* p lies somewhere below the directory d
IsUnder(p, d) ==
    /\ Len(p) > Len(d) + 1
    /\ SubSeq(p, 1, Len(d)) = d
    /\ p[Len(d) + 1] = "/"

\* the order of the characters, for the order of directory entries
CharOrder == <<"-", "/", "0", "1", "2", "3", "4", "5", "6", "7", "8", "9",
               "a", "b", "d", "f", "n", "r", "x", "{", "}">>

CharRank(c) == CHOOSE i \in 1..Len(CharOrder) : CharOrder[i] = c

\* a < b as texts
RECURSIVE TextLess(_, _)
TextLess(a, b) ==
    IF b = <<>> THEN FALSE
    ELSE IF a = <<>> THEN TRUE
    ELSE IF a[1] # b[1] THEN CharRank(a[1]) < CharRank(b[1])
    ELSE TextLess(Tail(a), Tail(b))

\* the paths of S in the order os.scandir returns them.  The order depends on
\* the file system; the model has the ascending and the descending one.
RECURSIVE Scanned(_, _)
Scanned(S, scan) ==
    IF S = {} THEN <<>>
    ELSE LET first == CHOOSE x \in S : \A y \in S \ {x} :
                          IF scan = "asc" THEN TextLess(x, y) ELSE TextLess(y, x)
         IN  <<first>> \o Scanned(S \ {first}, scan)

\* why the operating system (POSIX) refuses to rename old_file to new_file in
\* this file system, "" when it does not
RenameRefusal(files_now, dirs_now, old_file, new_file) ==
    IF old_file \notin files_now THEN "FileNotFoundError"
    ELSE IF Parent(new_file) # <<>> /\ Parent(new_file) \notin dirs_now
         THEN (IF Parent(new_file) \in files_now THEN "NotADirectoryError"
               ELSE "FileNotFoundError")
    ELSE IF IsUnder(new_file, old_file) THEN "OSError"               \* into itself
    ELSE IF new_file \notin files_now THEN ""
    ELSE IF old_file \in dirs_now /\ new_file \notin dirs_now THEN "NotADirectoryError"
    ELSE IF old_file \notin dirs_now /\ new_file \in dirs_now THEN "IsADirectoryError"
    ELSE IF old_file \in dirs_now /\ (\E p \in files_now : IsUnder(p, new_file))
         THEN "OSError"                                              \* directory not empty
    ELSE ""

\* where a path is after old_file, with all that lies below it, became new_file
Moved(p, old_file, new_file) ==
    IF p = old_file THEN new_file
    ELSE IF IsUnder(p, old_file) THEN new_file \o Drop(p, Len(old_file) + 1)
    ELSE p

(***************************************************************************)
(* walk_tree(root): os.walk(root), top down, errors ignored (onerror is    *)
(* None), yielding the directories and then the files of each directory    *)
(* it visits.                                                              *)
(***************************************************************************)
\* an eager walk: every directory below top listed at once
RECURSIVE ListedBelow(_, _, _, _)
ListedBelow(tops, files_now, dirs_now, scan) ==
    IF tops = <<>> THEN [pending |-> <<>>, lst |-> <<>>]
    ELSE LET top  == Head(tops)
             ds   == Scanned({p \in dirs_now : Parent(p) = top}, scan)
             fl   == Scanned({p \in files_now \ dirs_now : Parent(p) = top}, scan)
             here == IF top \in dirs_now
                     THEN [pending |-> ds \o fl,
                           lst |-> <<[dir |-> top, ok |-> TRUE, entries |-> ds \o fl]>>]
                     ELSE [pending |-> <<>>,
                           lst |-> <<[dir |-> top, ok |-> FALSE, entries |-> <<>>]>>]
             rest == ListedBelow((IF top \in dirs_now THEN ds ELSE <<>>) \o Tail(tops),
                                 files_now, dirs_now, scan)
         IN  [pending |-> here.pending \o rest.pending, lst |-> here.lst \o rest.lst]

\* a slip: the whole tree listed before the first item is yielded
walk_tree_Eager(w, files_now, dirs_now, lst) ==
    IF w.pending # <<>>
    THEN [done |-> FALSE, item |-> Head(w.pending),
          walk |-> [w EXCEPT !.pending = Tail(w.pending)], lst |-> lst]
    ELSE IF w.stack = <<>>
    THEN [done |-> TRUE, item |-> NoText, walk |-> w, lst |-> lst]
    ELSE LET all == ListedBelow(w.stack, files_now, dirs_now, w.scan) IN
         IF all.pending = <<>>
         THEN [done |-> TRUE, item |-> NoText, walk |-> [w EXCEPT !.stack = <<>>],
               lst |-> lst \o all.lst]
         ELSE [done |-> FALSE, item |-> Head(all.pending),
               walk |-> [w EXCEPT !.stack = <<>>, !.pending = Tail(all.pending)],
               lst |-> lst \o all.lst]

\* next() on the generator walk_tree(root), lines 216 to 224.  w.pending are
\* the entries of the directory listed last that are still to be yielded;
\* w.stack are the directories os.walk has still to visit, the next one first.
\* os.walk lists a directory when it is resumed after all entries of the
\* one before were yielded; a directory that cannot be listed (it does not
\* exist, or is no directory) is passed over.  lst collects the listings
\* made on the way.  done is StopIteration.
RECURSIVE walk_tree(_, _, _, _)
walk_tree(w, files_now, dirs_now, lst) ==
    IF w.pending # <<>>
    THEN [done |-> FALSE, item |-> Head(w.pending),
          walk |-> [w EXCEPT !.pending = Tail(w.pending)], lst |-> lst]
    ELSE IF w.stack = <<>>
    THEN [done |-> TRUE, item |-> NoText, walk |-> w, lst |-> lst]
    ELSE LET top == Head(w.stack) IN
         IF top \notin dirs_now
         THEN walk_tree([w EXCEPT !.stack = Tail(w.stack)], files_now, dirs_now,
                        Append(lst, [dir |-> top, ok |-> FALSE, entries |-> <<>>]))
         ELSE LET ds == Scanned({p \in dirs_now : Parent(p) = top}, w.scan)
                  fl == Scanned({p \in files_now \ dirs_now : Parent(p) = top}, w.scan)
              IN  walk_tree([w EXCEPT !.stack = ds \o Tail(w.stack), !.pending = ds \o fl],
                            files_now, dirs_now,
                            Append(lst, [dir |-> top, ok |-> TRUE, entries |-> ds \o fl]))

(***************************************************************************)
(* batch_rename: one iteration of the loop, for the item old_file that     *)
(* enumerate numbers idx.                                                  *)
(***************************************************************************)
\* a slip: the offset left out
Renumber_OffsetDropped(old_n, offset) == old_n

\* line 270: n = old_n + cfg.renumber_offset
Renumber(old_n, offset) == old_n + offset

\* lines 265 to 283: the text put for {n}; num is None when the substitution
\* is skipped, exc names the exception raised on the way
NumeralFor(c, idx, old_file) ==
    IF GroupBased(c.renumber_match_group)
    THEN LET m == MatchStart(c.pattern, old_file) IN
         IF ~m.ok THEN [exc |-> "", num |-> NoText]
         ELSE IF c.renumber_match_group > Groups(c.pattern)
              THEN [exc |-> "IndexError", num |-> NoText]       \* m.group: no such group
         ELSE IF m.g1 = NoText
              THEN [exc |-> "TypeError", num |-> NoText]        \* int(None)
         ELSE [exc |-> "",
               num |-> NumeralText(Renumber(IntOfDigits(m.g1), c.renumber_offset),
                                   c.zero_pad)]
    ELSE [exc |-> "", num |-> NumeralText(idx, c.zero_pad)]

\* a slip: the numbering stands still
Enumerate_Stuck(n) == n

\* line 259: enumerate hands out the next number with the next item, whatever
\* the loop body did with this one
Enumerate(n) == n + 1

\* a slip: every item counts as changed
Changed_Always(old_file, new_file) == TRUE

\* line 291: is the new name another name
Changed(old_file, new_file) == old_file # new_file

\* lines 261 to 293: what the iteration decides before it prints or renames
Decide(c, idx, old_file) ==
    LET n    == NumeralFor(c, idx, old_file)
        repl == ResolveTemplate(c.replacement, n.num)
    IN  IF n.exc # ""
        THEN [exc |-> n.exc, num |-> NoText, repl |-> NoText, new_file |-> NoText]
        ELSE IF BadGroupReference(c.pattern, repl)
        THEN [exc |-> "re.error", num |-> n.num, repl |-> repl, new_file |-> NoText]
        ELSE [exc |-> "", num |-> n.num, repl |-> repl,
              new_file |-> Sub(c.pattern, repl, old_file)]

\* line 297: f"Rename: {old_file} -> {new_file}"
RenameLine(old_file, new_file) ==
    <<"R", "e", "n", "a", "m", "e", ":", " ">> \o old_file
        \o <<" ", "-", ">", " ">> \o new_file

\* a slip: the file copied, the old path left in place
Renamed_KeepsOld(files_now, old_file, new_file) == files_now \cup {new_file}

\* line 300: the paths after pathlib.Path(old_file).rename(new_file) succeeded:
\* old_file and all that lies below it are where new_file is
Renamed(files_now, old_file, new_file) ==
    {Moved(p, old_file, new_file) : p \in files_now}

(***************************************************************************)
(* Specification SpecParse: init_renumbering applied to every short text.  *)
(***************************************************************************)
SpecChars == {"0", "2", "+", "-", "a"}

\* the walk of a run that walks no tree
NoWalk == [stack |-> <<>>, pending |-> <<>>, scan |-> "asc"]

\* the variables of a run, in the specifications that run nothing
IdleRun ==
    /\ cfg = [pattern |-> [lit |-> <<"f">>, grp |-> "none"], replacement |-> <<>>,
              renumber_from |-> 1, renumber_offset |-> 0, zero_pad |-> 1,
              renumber_match_group |-> NoInt, dry_run |-> TRUE]
    /\ files = <<>>
    /\ gi = 1
    /\ stdin = <<>>
    /\ count = 1
    /\ fs = {}
    /\ out = <<>>
    /\ pc = "idle"
    /\ err = ""
    /\ yielded = <<>>
    /\ stdin_read = <<>>
    /\ last = [old |-> NoText, idx |-> 0, num |-> NoText, repl |-> NoText,
               new |-> NoText, effect |-> "none"]
    /\ walk = NoWalk
    /\ dirs = {}
    /\ log = <<>>
    /\ listed = <<>>
    /\ fs0 = {}

IdleTemplate ==
    /\ template = <<>>
    /\ numeral = NoText
    /\ replacement_n = NoText

InitParse ==
    /\ renumber_group \in TextsUpTo(SpecChars, MaxSpecLen) \cup {NoText}
    /\ parsed = [st |-> "pending", group |-> NoInt, offset |-> 0]
    /\ IdleTemplate
    /\ IdleRun

InitRenumbering ==
    /\ parsed.st = "pending"
    /\ parsed' = init_renumbering(renumber_group)
    /\ UNCHANGED <<renumber_group, templateVars, runVars>>

NextParse == InitRenumbering

SpecParse == InitParse /\ [][NextParse]_vars

\* a text of one or more decimal digits
AllDigits(s) == s # <<>> /\ \A i \in 1..Len(s) : IsDigit(s[i])

\* the text is wholly of the form <digits> or <digits>(+|-)<digits>
InGrammar(s) ==
    \/ AllDigits(s)
    \/ \E k \in 2..(Len(s) - 1) :
          /\ AllDigits(SubSeq(s, 1, k - 1))
          /\ s[k] \in {"+", "-"}
          /\ AllDigits(Drop(s, k + 1))

\* C5: init_renumbering fails with a format error for every non-empty text
\* that is not wholly of the form <digits> or <digits>(+|-)<digits>.
C5_RejectsEveryNonGrammarText ==
    (/\ parsed.st # "pending"
     /\ renumber_group # NoText
     /\ renumber_group # <<>>
     /\ ~InGrammar(renumber_group))
        => parsed.st = "ValueError"

\* C6: for every text of the grammar the returned group index is an integer
\* >= 1 equal to the first digit run, the offset is the second digit run
\* (0 when absent) negated after '-', and the index selects group-based
\* numbering; an absent or empty text returns no group (order-based numbering).
C6_ParsesGrammarToGroupAndOffset ==
    parsed.st # "pending" =>
        IF renumber_group = NoText \/ renumber_group = <<>>
        THEN parsed.st = "ok" /\ parsed.group = NoInt /\ ~GroupBased(parsed.group)
        ELSE InGrammar(renumber_group) =>
               LET d1 == DigitRun(renumber_group, 1)
                   k  == Len(d1) + 1
                   d2 == Drop(renumber_group, k + 1)
               IN  /\ parsed.st = "ok"
                   /\ parsed.group = IntOfDigits(d1)
                   /\ parsed.group >= 1
                   /\ parsed.offset =
                        (IF k > Len(renumber_group) THEN 0
                         ELSE IF renumber_group[k] = "-" THEN 0 - IntOfDigits(d2)
                         ELSE IntOfDigits(d2))
                   /\ GroupBased(parsed.group)

(***************************************************************************)
(* Specification SpecTemplate: the numeral substitution and the un-escape  *)
(* applied to every short template, with a numeral (order-based mode, or   *)
(* group-based mode on a match) and without one (group-based mode, no      *)
(* match).                                                                 *)
(***************************************************************************)
TemplateChars == {"{", "}", "n", "x"}

\* (n, zero_pad) pairs the numerals are made from
NumeralInputs == {<<7, 1>>, <<7, 3>>, <<-12, 4>>}

IdleParse ==
    /\ renumber_group = NoText
    /\ parsed = [st |-> "pending", group |-> NoInt, offset |-> 0]

InitTemplate ==
    /\ template \in TextsUpTo(TemplateChars, MaxTemplateLen)
    /\ numeral \in {NumeralText(x[1], x[2]) : x \in NumeralInputs} \cup {NoText}
    /\ replacement_n = NoText
    /\ IdleParse
    /\ IdleRun

Resolve ==
    /\ replacement_n = NoText
    /\ replacement_n' = ResolveTemplate(template, numeral)
    /\ UNCHANGED <<template, numeral, parseVars, runVars>>

NextTemplate == Resolve

SpecTemplate == InitTemplate /\ [][NextTemplate]_vars

EscapedPlaceholder == <<"{", "{", "}", "n", "}">>     \* "{{}n}"

\* C3: wherever the template holds the escape {{}n}, the text produced by the
\* numeral substitution and the un-escape holds the literal {n} there, between
\* what the two steps make of the text before it and of the text after it;
\* no numeral is put there.
C3_EscapeYieldsLiteralPlaceholder ==
    replacement_n # NoText =>
        \A i \in 1..Len(template) :
            HasAt(template, EscapedPlaceholder, i) =>
                replacement_n =
                    ResolveTemplate(SubSeq(template, 1, i - 1), numeral)
                    \o Placeholder
                    \o ResolveTemplate(Drop(template, i + Len(EscapedPlaceholder)), numeral)

\* an escape next to a placeholder, resolved with a numeral
C3_Witness ==
    /\ replacement_n # NoText
    /\ numeral # NoText
    /\ \E i \in 1..Len(template) : HasAt(template, EscapedPlaceholder, i)
    /\ Len(template) > Len(EscapedPlaceholder)

(***************************************************************************)
(* Specification SpecGen: the generator gen_files returns, drained item by *)
(* item, for every short list of path arguments and every short stdin.     *)
(***************************************************************************)
\* the generator's side of an iteration: the item handed to the loop body.
\* gen_files yields from the path arguments when there are any (line 203) and
\* from walk_tree otherwise (line 213).
Pulled ==
    IF files # <<>>
    THEN LET g == gen_files(files, gi, stdin)
         IN  [done |-> g.done, item |-> g.item, gi |-> g.gi, stdin |-> g.stdin,
              read |-> g.read, walk |-> walk, lst |-> <<>>]
    ELSE LET w == walk_tree(walk, fs, dirs, <<>>)
         IN  [done |-> w.done, item |-> w.item, gi |-> gi, stdin |-> stdin,
              read |-> FALSE, walk |-> w.walk, lst |-> w.lst]

\* the listings of a pull, with the number of items yielded before them
Listings(g) ==
    [i \in 1..Len(g.lst) |->
        [dir |-> g.lst[i].dir, ok |-> g.lst[i].ok, entries |-> g.lst[i].entries,
         at |-> Len(yielded)]]

GenArgs == { <<"a">>, <<"b">>, Dash }

StdinLines == { <<" ", "s", "\n">>, <<"t", "\n">>, <<"\n">> }

InitGen ==
    /\ IdleParse
    /\ IdleTemplate
    /\ cfg = [pattern |-> [lit |-> <<"f">>, grp |-> "none"], replacement |-> <<>>,
              renumber_from |-> 1, renumber_offset |-> 0, zero_pad |-> 1,
              renumber_match_group |-> NoInt, dry_run |-> TRUE]
    /\ files \in UNION {[1..n -> GenArgs] : n \in 1..MaxGenFiles}
    /\ gi = 1
    /\ stdin \in UNION {[1..n -> StdinLines] : n \in 0..MaxStdinLines}
    /\ count = 1
    /\ fs = {}
    /\ out = <<>>
    /\ pc = "gen"
    /\ err = ""
    /\ yielded = <<>>
    /\ stdin_read = <<>>
    /\ last = [old |-> NoText, idx |-> 0, num |-> NoText, repl |-> NoText,
               new |-> NoText, effect |-> "none"]
    /\ walk = NoWalk
    /\ dirs = {}
    /\ log = <<>>
    /\ listed = <<>>
    /\ fs0 = {}

\* next(generator) returns an item
GenYields ==
    /\ pc = "gen"
    /\ ~Pulled.done
    /\ gi' = Pulled.gi
    /\ stdin' = Pulled.stdin
    /\ stdin_read' = IF Pulled.read THEN Append(stdin_read, Head(stdin)) ELSE stdin_read
    /\ yielded' = Append(yielded, Pulled.item)
    /\ UNCHANGED <<cfg, files, count, fs, out, pc, err, last>>
    /\ UNCHANGED <<walk, dirs, log, listed, fs0>>
    /\ UNCHANGED <<parseVars, templateVars>>

\* next(generator) raises StopIteration
GenStops ==
    /\ pc = "gen"
    /\ Pulled.done
    /\ gi' = Pulled.gi
    /\ pc' = "exhausted"
    /\ UNCHANGED <<cfg, files, stdin, count, fs, out, err, yielded, stdin_read, last>>
    /\ UNCHANGED <<walk, dirs, log, listed, fs0>>
    /\ UNCHANGED <<parseVars, templateVars>>

NextGen == GenYields \/ GenStops

SpecGen == InitGen /\ [][NextGen]_vars

HasDash == \E i \in 1..Len(files) : files[i] = Dash

\* every line of standard input, read or not, whitespace-trimmed
StdinTrimmed ==
    LET all == stdin_read \o stdin IN [i \in 1..Len(all) |-> Strip(all[i])]

\* C4: with an argument "-" among the path arguments gen_files yields the
\* whitespace-trimmed stdin lines in stdin order and none of the literal
\* arguments; with no "-" it yields each argument as given, in order.
C4_DashSwitchesEntirelyToStdin ==
    pc = "exhausted" =>
        yielded = (IF HasDash THEN StdinTrimmed ELSE files)

(***************************************************************************)
(* Specification Spec: a run of batch_rename over the paths gen_files      *)
(* yields, as set up by init_from_args.                                    *)
(***************************************************************************)
Names == { <<"f", "1">>, <<"f", "0", "2">>, <<"a", "f", "1">>, <<"f">>, <<"a">> }

Patterns == { [lit |-> <<"f">>, grp |-> g] : g \in {"none", "req", "opt"} }

Replacements == {
    <<"{", "n", "}">>,                   \* {n}
    <<"f", "{", "n", "}">>,              \* f{n}
    <<"{", "{", "}", "n", "}">>,         \* {{}n}
    <<"\\", "1", "a">>,                  \* \1a
    <<"b">> }

\* --renumber-group
RenumberGroups == { NoText, <<"0">>, <<"1">>, <<"1", "-", "3">>, <<"1", "+", "2">>, <<"2">> }

\* (--renumber-from, --zero-pad)
NumberingArgs == {<<1, 1>>, <<9, 2>>, <<-1, 3>>}

StdinSample == << <<" ", "f", "1", "\n">>, <<"f", "0", "2", "\n">> >>

\* init_from_args, lines 158 to 173, for arguments that init_renumbering accepts
Init ==
    /\ IdleParse
    /\ IdleTemplate
    /\ \E pat \in Patterns, repl \in Replacements, rg \in RenumberGroups,
          na \in NumberingArgs, dry \in BOOLEAN :
         LET r == init_renumbering(rg) IN
         cfg = [pattern |-> pat, replacement |-> repl,
                renumber_from |-> na[1], renumber_offset |-> r.offset, zero_pad |-> na[2],
                renumber_match_group |-> r.group, dry_run |-> dry]
    /\ files \in UNION {[1..n -> Names \cup {Dash}] : n \in 1..MaxFiles}
    /\ gi = 1
    /\ stdin = IF \E i \in 1..Len(files) : files[i] = Dash THEN StdinSample ELSE <<>>
    /\ count = cfg.renumber_from
    /\ fs = Names
    /\ out = <<>>
    /\ pc = "run"
    /\ err = ""
    /\ yielded = <<>>
    /\ stdin_read = <<>>
    /\ last = [old |-> NoText, idx |-> 0, num |-> NoText, repl |-> NoText,
               new |-> NoText, effect |-> "none"]
    /\ walk = NoWalk
    /\ dirs = {}
    /\ log = <<>>
    /\ listed = <<>>
    /\ fs0 = fs

\* what every iteration that got an item does to the generator and to enumerate
Advance(g) ==
    /\ gi' = g.gi
    /\ stdin' = g.stdin
    /\ stdin_read' = IF g.read THEN Append(stdin_read, Head(stdin)) ELSE stdin_read
    /\ count' = Enumerate(count)
    /\ yielded' = Append(yielded, g.item)
    /\ walk' = g.walk
    /\ listed' = listed \o Listings(g)

Note(g, d, effect) ==
    /\ last' = [old |-> g.item, idx |-> count, num |-> d.num, repl |-> d.repl,
                new |-> d.new_file, effect |-> effect]
    /\ log' = Append(log, [old |-> g.item, idx |-> count, new |-> d.new_file,
                           effect |-> effect, dir |-> g.item \in dirs])

\* the generator is exhausted: the loop ends (line 259)
LoopEnds ==
    /\ pc = "run"
    /\ Pulled.done
    /\ pc' = "done"
    /\ gi' = Pulled.gi
    /\ walk' = Pulled.walk
    /\ listed' = listed \o Listings(Pulled)
    /\ UNCHANGED <<cfg, files, stdin, count, fs, out, err, yielded, stdin_read, last>>
    /\ UNCHANGED <<dirs, log, fs0>>
    /\ UNCHANGED <<parseVars, templateVars>>

\* an exception of lines 267 to 289 leaves the loop
ItemRaises ==
    /\ pc = "run"
    /\ ~Pulled.done
    /\ LET g == Pulled
           d == Decide(cfg, count, g.item)
       IN  /\ d.exc # ""
           /\ Advance(g)
           /\ Note(g, d, "raised")
           /\ pc' = "raised"
           /\ err' = d.exc
    /\ UNCHANGED <<cfg, files, fs, out, dirs, fs0>>
    /\ UNCHANGED <<parseVars, templateVars>>

\* lines 291 to 293: no change in name, continue
ItemUnchanged ==
    /\ pc = "run"
    /\ ~Pulled.done
    /\ LET g == Pulled
           d == Decide(cfg, count, g.item)
       IN  /\ d.exc = ""
           /\ ~Changed(g.item, d.new_file)
           /\ Advance(g)
           /\ Note(g, d, "unchanged")
    /\ UNCHANGED <<cfg, files, fs, out, pc, err, dirs, fs0>>
    /\ UNCHANGED <<parseVars, templateVars>>

\* a slip: the line of the item put before the lines printed so far
ItemPreviewed_PrintsFirst ==
    /\ pc = "run"
    /\ ~Pulled.done
    /\ LET g == Pulled
           d == Decide(cfg, count, g.item)
       IN  /\ d.exc = ""
           /\ Changed(g.item, d.new_file)
           /\ cfg.dry_run
           /\ Advance(g)
           /\ Note(g, d, "printed")
           /\ out' = <<RenameLine(g.item, d.new_file)>> \o out
    /\ UNCHANGED <<cfg, files, fs, pc, err, dirs, fs0>>
    /\ UNCHANGED <<parseVars, templateVars>>

\* lines 295 to 297: the dry run prints the rename
ItemPreviewed ==
    /\ pc = "run"
    /\ ~Pulled.done
    /\ LET g == Pulled
           d == Decide(cfg, count, g.item)
       IN  /\ d.exc = ""
           /\ Changed(g.item, d.new_file)
           /\ cfg.dry_run
           /\ Advance(g)
           /\ Note(g, d, "printed")
           /\ out' = Append(out, RenameLine(g.item, d.new_file))
    /\ UNCHANGED <<cfg, files, fs, pc, err, dirs, fs0>>
    /\ UNCHANGED <<parseVars, templateVars>>

\* lines 298 to 300: the rename succeeds
ItemRenamed ==
    /\ pc = "run"
    /\ ~Pulled.done
    /\ LET g == Pulled
           d == Decide(cfg, count, g.item)
       IN  /\ d.exc = ""
           /\ Changed(g.item, d.new_file)
           /\ ~cfg.dry_run
           /\ RenameRefusal(fs, dirs, g.item, d.new_file) = ""
           /\ Advance(g)
           /\ Note(g, d, "renamed")
           /\ fs' = Renamed(fs, g.item, d.new_file)
           /\ dirs' = Renamed(dirs, g.item, d.new_file)
    /\ UNCHANGED <<cfg, files, out, pc, err, fs0>>
    /\ UNCHANGED <<parseVars, templateVars>>

\* a slip: the failure swallowed, the loop going on with the next item
RenameFails_Continues ==
    /\ pc = "run"
    /\ ~Pulled.done
    /\ LET g == Pulled
           d == Decide(cfg, count, g.item)
       IN  /\ d.exc = ""
           /\ Changed(g.item, d.new_file)
           /\ ~cfg.dry_run
           /\ Advance(g)
           /\ Note(g, d, "rename_failed")
    /\ UNCHANGED <<cfg, files, fs, out, pc, err, dirs, fs0>>
    /\ UNCHANGED <<parseVars, templateVars>>

\* lines 298 to 300: the rename fails, because the source or the directory of
\* the target does not exist (FileNotFoundError), because a directory is in
\* the way, or because the operating system refuses it for another reason
\* (OSError, which can happen to any rename); the exception leaves the loop
RenameFails ==
    /\ pc = "run"
    /\ ~Pulled.done
    /\ LET g == Pulled
           d == Decide(cfg, count, g.item)
       IN  /\ d.exc = ""
           /\ Changed(g.item, d.new_file)
           /\ ~cfg.dry_run
           /\ Advance(g)
           /\ Note(g, d, "rename_failed")
           /\ err' = LET why == RenameRefusal(fs, dirs, g.item, d.new_file)
                      IN  IF why = "" THEN "OSError" ELSE why
           /\ pc' = "raised"
    /\ UNCHANGED <<cfg, files, fs, out, dirs, fs0>>
    /\ UNCHANGED <<parseVars, templateVars>>

Next ==
    \/ LoopEnds
    \/ ItemRaises
    \/ ItemUnchanged
    \/ ItemPreviewed
    \/ ItemRenamed
    \/ RenameFails

Spec == Init /\ [][Next]_vars

(***************************************************************************)
(* Specification SpecWalk: a run of batch_rename with no path arguments    *)
(* and no glob, over the paths walk_tree yields from a small tree.         *)
(***************************************************************************)
\* --walk
WalkRoot == <<"r">>

\* the directories and the plain files a tree below the root is made of
TreeDirs == { <<"r", "/", "d", "1">>, <<"r", "/", "d", "2">>,
              <<"r", "/", "d", "1", "/", "d", "2">> }

TreeFiles == { <<"r", "/", "f", "1">>, <<"r", "/", "f", "2">>,
               <<"r", "/", "d", "1", "/", "f", "1">>,
               <<"r", "/", "d", "2", "/", "f", "1">> }

\* the trees of at most MaxEntries entries: each entry lies in the root or in
\* a directory of the tree
Trees ==
    { S \in SUBSET (TreeDirs \cup TreeFiles) :
        /\ Cardinality(S) <= MaxEntries
        /\ \A p \in S : Parent(p) = WalkRoot \/ Parent(p) \in S }

\* (pattern, replacement)
WalkRenames == {
    << [lit |-> <<"d">>, grp |-> "req"], <<"d", "{", "n", "}">> >>,    \* d(\d+) to d{n}
    << [lit |-> <<"d">>, grp |-> "req"], <<"x", "{", "n", "}">> >>,    \* d(\d+) to x{n}
    << [lit |-> <<"f">>, grp |-> "req"], <<"d", "1">> >>,              \* f(\d+) to d1
    << [lit |-> <<"d">>, grp |-> "req"], <<"d", "1", "/", "f", "1">> >>,
    << [lit |-> <<"f">>, grp |-> "none"], <<"\\", "1", "a">> >> }      \* f to \1a

\* --renumber-from
WalkFroms == {0, 1}

\* init_from_args, lines 158 to 173, with no path argument and no --glob; the
\* walk root exists with a tree below it, or does not exist
InitWalk ==
    /\ IdleParse
    /\ IdleTemplate
    /\ \E pr \in WalkRenames, from \in WalkFroms, dry \in BOOLEAN :
         cfg = [pattern |-> pr[1], replacement |-> pr[2],
                renumber_from |-> from, renumber_offset |-> 0, zero_pad |-> 1,
                renumber_match_group |-> NoInt, dry_run |-> dry]
    /\ files = <<>>
    /\ gi = 1
    /\ stdin = <<>>
    /\ count = cfg.renumber_from
    /\ \/ \E S \in Trees : fs = S \cup {WalkRoot} /\ dirs = (S \cap TreeDirs) \cup {WalkRoot}
       \/ fs = {} /\ dirs = {}
    /\ out = <<>>
    /\ pc = "run"
    /\ err = ""
    /\ yielded = <<>>
    /\ stdin_read = <<>>
    /\ last = [old |-> NoText, idx |-> 0, num |-> NoText, repl |-> NoText,
               new |-> NoText, effect |-> "none"]
    /\ \E scan \in {"asc", "desc"} :
         walk = [stack |-> <<WalkRoot>>, pending |-> <<>>, scan |-> scan]
    /\ log = <<>>
    /\ listed = <<>>
    /\ fs0 = fs

SpecWalk == InitWalk /\ [][Next]_vars

(***************************************************************************)
(* The claims about a run.                                                 *)
(***************************************************************************)
\* the text t is the decimal numeral of n, left-padded with zeros (after the
\* sign of a negative n) to at least w characters and no further
IsPaddedNumeral(t, n, w) ==
    LET mag  == IF n < 0 THEN 0 - n ELSE n
        body == IF n < 0 THEN Drop(t, 2) ELSE t
    IN  /\ t # NoText
        /\ n < 0 => (t # <<>> /\ t[1] = "-")
        /\ AllDigits(body)
        /\ IntOfDigits(body) = mag
        /\ Len(t) >= w
        /\ (Len(t) > w /\ Len(body) > 1) => body[1] # "0"

\* an item was handed to the loop body in this step
ItemStep == yielded' # yielded

\* C1: in order-based mode (no renumbering group configured) the numeral put
\* for {n} with the k-th item of the path sequence is renumber_from + k - 1,
\* in decimal, zero-padded to zero_pad, whatever became of the items before
\* it and of the item itself.
C1_OrderNumeralIsStartPlusPosition ==
    (cfg.renumber_match_group = NoInt /\ Len(yielded) >= 1) =>
        /\ last.old = yielded[Len(yielded)]
        /\ IsPaddedNumeral(last.num, cfg.renumber_from + Len(yielded) - 1, cfg.zero_pad)

\* the second item numbered 10 after a first item that the pattern does not match
C1_Witness ==
    /\ cfg.renumber_match_group = NoInt
    /\ Len(yielded) = 2
    /\ yielded[1] = <<"a">>
    /\ cfg.renumber_from = 9
    /\ last.num = <<"1", "0">>
    /\ last.effect = "printed"

\* the integer the pattern's group captures at the start of the item
CapturedInt(c, item) == IntOfDigits(DigitRun(item, Len(c.pattern.lit) + 1))

\* C2: in group-based mode the numeral put for {n} is the integer the
\* designated group captured plus the signed offset, zero-padded to zero_pad;
\* it is a function of the item alone, not of its position or of earlier items.
C2_GroupNumeralIsCapturePlusOffset ==
    (GroupBased(cfg.renumber_match_group) /\ last.num # NoText) =>
        IsPaddedNumeral(last.num, CapturedInt(cfg, last.old) + cfg.renumber_offset,
                        cfg.zero_pad)

\* the second item, f02, renumbered 02 - 3 = -1 and padded to three characters
C2_Witness ==
    /\ GroupBased(cfg.renumber_match_group)
    /\ cfg.renumber_offset = -3
    /\ cfg.zero_pad = 3
    /\ Len(yielded) = 2
    /\ last.old = <<"f", "0", "2">>
    /\ last.num = <<"-", "0", "1">>

\* C7: an item whose new path is its old path is not renamed and not
\* printed, in preview and in apply mode, and the loop goes on.
C7_UnchangedNameHasNoEffect ==
    [][(ItemStep /\ last'.new = last'.old) =>
           (fs' = fs /\ out' = out /\ pc' = "run" /\ err' = err)]_vars

\* in apply mode, an item that keeps its name, after an item that was renamed
C7_Witness ==
    /\ ~cfg.dry_run
    /\ Len(yielded) = 2
    /\ fs # Names
    /\ last.new = last.old
    /\ last.old \in fs
    /\ pc = "run"

\* C8: a dry run leaves the file system as it is and prints exactly one line
\* "Rename: <old> -> <new>" per item whose new name differs; in apply mode
\* no line is printed and the rename of <old> to <new> is done instead.
C8_PreviewPrintsApplyRenames ==
    [][IF ItemStep
       THEN LET old     == last'.old
                new     == last'.new
                differs == new # NoText /\ new # old
            IN  IF cfg.dry_run
                THEN /\ fs' = fs
                     /\ out' = IF differs
                               THEN Append(out, <<"R", "e", "n", "a", "m", "e", ":", " ">> \o old
                                                \o <<" ", "-", ">", " ">> \o new)
                               ELSE out
                ELSE /\ out' = out
                     /\ differs =>
                          \/ old \in fs /\ new \in fs' /\ fs' = (fs \ {old}) \cup {new}
                          \/ pc' = "raised" /\ fs' = fs
                     /\ ~differs => fs' = fs
       ELSE fs' = fs /\ out' = out]_vars

\* a dry run that has printed two lines
C8_Witness ==
    /\ cfg.dry_run
    /\ Len(out) = 2
    /\ fs = Names
    /\ pc = "done"

\* C9: in apply mode a rename that fails ends the run with that error: the
\* file system stays as the renames before it left it, the failing item is
\* not renamed, and no later step processes an item or tries the rename again.
C9_RenameFailureAbortsWithoutRollback ==
    [][/\ pc # "raised"
       /\ (ItemStep /\ last'.effect = "rename_failed") =>
             (/\ fs' = fs
              /\ out' = out
              /\ pc' = "raised"
              /\ err' \in {"OSError", "FileNotFoundError"})]_vars

\* the rename of the second item failed, after the first was renamed and
\* with a third item still to come
C9_Witness ==
    /\ pc = "raised"
    /\ last.effect = "rename_failed"
    /\ Len(yielded) = 2
    /\ fs # Names
    /\ last.old \in fs
    /\ ~Pulled.done

\* the pattern matches the item somewhere (matcher.sub substitutes), and no
\* match of it at position i has a text for the designated group
MatchesWithoutGroup(c, item) ==
    /\ \E i \in 1..Len(item) : MatchAt(c.pattern, item, i).ok
    /\ \A i \in 1..Len(item) :
          MatchAt(c.pattern, item, i).ok =>
              \/ c.renumber_match_group > Groups(c.pattern)
              \/ MatchAt(c.pattern, item, i).g1 = NoText

\* C10: in group-based mode an item the pattern matches, in which the
\* designated group is absent or unmatched, is no error: the run goes on,
\* the numeral substitution is skipped for it, and {n} stays in its name.
C10_GroupMissIsNotAnError ==
    (/\ GroupBased(cfg.renumber_match_group)
     /\ last.effect # "none"
     /\ MatchesWithoutGroup(cfg, last.old))
        => (/\ ~(pc = "raised" /\ err \in {"TypeError", "IndexError"})
            /\ last.num = NoText
            /\ last.repl = Unescape(cfg.replacement))

(***************************************************************************)
(* The claims about a run that walks a tree.                               *)
(***************************************************************************)
\* the run walks a tree whose root did not exist when it began
WalkRootMissing == files = <<>> /\ pc # "idle" /\ WalkRoot \notin fs0

\* C11: when the tree walk is the path source and the walk root does not
\* exist, the run never completes successfully with an empty sequence of
\* paths: the path source fails with an I/O error that aborts the run.
C11_MissingWalkRootAbortsRun ==
    WalkRootMissing =>
        /\ ~(pc = "done" /\ yielded = <<>>)
        /\ pc \in {"done", "raised"} => (pc = "raised" /\ err \in {"FileNotFoundError", "OSError"})

\* the lines a dry run prints for the items of a log, in the order of the log
RECURSIVE LinesOf(_)
LinesOf(l) ==
    IF l = <<>> THEN <<>>
    ELSE (IF Head(l).effect = "printed"
          THEN <<RenameLine(Head(l).old, Head(l).new)>> ELSE <<>>) \o LinesOf(Tail(l))

\* the paths after the renames of a log were applied, in the order of the log
RECURSIVE PathsAfter(_, _)
PathsAfter(paths, l) ==
    IF l = <<>> THEN paths
    ELSE PathsAfter((IF Head(l).effect = "renamed"
                     THEN {Moved(p, Head(l).old, Head(l).new) : p \in paths}
                     ELSE paths), Tail(l))

\* C12: the items are processed one after the other in the order the path
\* source yields them: item k is resolved, with the counter value
\* renumber_from + k - 1, before item k + 1 is requested; the lines printed
\* and the renames applied are those of the changed items, in that order;
\* and no line of stdin is read before the items ahead of it are resolved.
C12_ProcessingIsSequentialInSourceOrder ==
    pc \in {"run", "done", "raised"} =>
        /\ Len(log) = Len(yielded)
        /\ \A k \in 1..Len(log) :
              /\ log[k].old = yielded[k]
              /\ log[k].idx = cfg.renumber_from + (k - 1)
        /\ count = cfg.renumber_from + Len(yielded)
        /\ out = LinesOf(log)
        /\ fs = PathsAfter(fs0, log)
        /\ \A k \in 1..Len(log) :
              log[k].effect \in {"raised", "rename_failed"} => (k = Len(log) /\ pc = "raised")
        /\ Len(stdin_read) <= Len(yielded)
        /\ \E k \in 0..(Len(yielded) - Len(stdin_read)) :
              \A j \in 1..Len(stdin_read) : yielded[k + j] = Strip(stdin_read[j])

\* a finished dry run over an argument and two lines of stdin, that skipped
\* one item and printed the two others
C12_Witness ==
    /\ pc = "done"
    /\ files # <<>>
    /\ Len(yielded) = 3
    /\ Len(stdin_read) = 2
    /\ Len(out) = 2
    /\ out[1] # out[2]
    /\ \E k \in 1..Len(log) : log[k].effect = "unchanged"

\* the run walks a tree
Walking == files = <<>> /\ pc # "idle"

YieldedPaths == {yielded[k] : k \in 1..Len(yielded)}

\* a directory other than the root is listed only after a listing of its
\* parent that held it, and after every entry of that listing was yielded
\* and processed
WalkIsLazy ==
    \A i \in 1..Len(listed) :
        listed[i].dir # WalkRoot =>
            \E j \in 1..(i - 1) :
                LET up == listed[j] IN
                /\ up.ok
                /\ up.dir = Parent(listed[i].dir)
                /\ \E e \in 1..Len(up.entries) : up.entries[e] = listed[i].dir
                /\ listed[i].at >= up.at + Len(up.entries)
                /\ Len(log) >= up.at + Len(up.entries)
                /\ \A e \in 1..Len(up.entries) : yielded[up.at + e] = up.entries[e]

\* item i of the log is a directory the run renamed
RenamedDir(i) == log[i].effect = "renamed" /\ log[i].dir

\* the rename of item k put a directory at the path d, or above it
PutDirAt(k, d) == RenamedDir(k) /\ (log[k].new = d \/ IsUnder(d, log[k].new))

\* the run aborts only on the error of an item's own substitution or rename
AbortsOnlyOnItem ==
    pc = "raised" =>
        /\ log # <<>>
        /\ log[Len(log)].effect \in {"raised", "rename_failed"}
        /\ err # ""

\* C13, as claimed: in a run over the tree walk the walk is lazy, and once a
\* directory has been renamed no path under its old name is ever yielded, so
\* that the run does not abort on such a path.
C13_NothingYieldedUnderRenamedDirectory ==
    Walking =>
        /\ WalkIsLazy
        /\ \A i \in 1..Len(log) : \A j \in (i + 1)..Len(log) :
              RenamedDir(i) => ~IsUnder(log[j].old, log[i].old)

\* C13, amended: in a run over the tree walk the walk is lazy: a directory
\* is listed only after every entry of its parent has been yielded and
\* processed.  Once a directory has been renamed, a path under its old name
\* is yielded only if a later rename of the run has put a directory at that
\* old name (or above it) before the walk came to list it.  A directory that
\* is gone when the walk comes to list it was renamed by the run (or is the
\* missing root); it is passed over without an error, the run aborting only
\* on the error of an item's own processing.  A finished preview has yielded
\* every entry of the tree, once, so that an apply run can rename fewer
\* entries than the preview of the same tree prints.
C13_WalkIsLazyAndSkipsRenamedDirectories ==
    Walking =>
        /\ WalkIsLazy
        /\ \A i \in 1..Len(log) : \A j \in (i + 1)..Len(log) :
              (RenamedDir(i) /\ IsUnder(log[j].old, log[i].old)) =>
                  \E k \in (i + 1)..(j - 1) : PutDirAt(k, log[i].old)
        /\ \A i \in 1..Len(listed) :
              ~listed[i].ok =>
                  /\ listed[i].entries = <<>>
                  /\ \/ listed[i].dir = WalkRoot /\ WalkRoot \notin fs0
                     \/ \E k \in 1..listed[i].at :
                           RenamedDir(k) /\ log[k].old = listed[i].dir
        /\ AbortsOnlyOnItem
        /\ (pc = "done" /\ cfg.dry_run) =>
              /\ YieldedPaths = fs0 \ {WalkRoot}
              /\ Len(yielded) = Cardinality(fs0 \ {WalkRoot})

\* a finished apply run that renamed a directory, passed over its old name
\* when the walk came to list it, and so never yielded an entry below it
\* that the preview of the same tree yields and prints a rename for
C13_Witness ==
    /\ Walking
    /\ pc = "done"
    /\ ~cfg.dry_run
    /\ \E i \in 1..Len(log), l \in 1..Len(listed) :
          /\ RenamedDir(i)
          /\ listed[l].dir = log[i].old
          /\ ~listed[l].ok
          /\ \E q \in fs0 \ YieldedPaths :
                /\ IsUnder(q, log[i].old)
                /\ Changed(q, Decide(cfg, cfg.renumber_from, q).new_file)

====
